---- MODULE Spec2Model ----
(***************************************************************************)
(* Model of the axom build helper scripts:                                 *)
(*   scripts/config-build.py          (specification Spec)                 *)
(*   scripts/llnl_scripts/build_src.py (specification SpecBuildSrc)        *)
(*                                                                         *)
(* Python strings are sequences of one-character strings, so that split,   *)
(* endswith, replace, lower, join, abspath are computed as Python computes *)
(* them.  The filesystem is the set of absolute paths that exist.          *)
(***************************************************************************)
EXTENDS Integers, Sequences, FiniteSets, TLC

VARIABLES pc, args, lineargs, environ, fs, fs0, cwd, platform_info, cachefile, buildpath,
          installpath, cmakeline, cmake_calls, exit_status, hostname,
          opts, src_dir, job_name, res, calls

vars == <<pc, args, lineargs, environ, fs, fs0, cwd, platform_info, cachefile, buildpath,
          installpath, cmakeline, cmake_calls, exit_status, hostname,
          opts, src_dir, job_name, res, calls>>

cbVars == <<args, lineargs, environ, fs, fs0, cwd, platform_info, cachefile, buildpath,
            installpath, cmakeline, cmake_calls>>

bsVars == <<opts, src_dir, job_name, res, calls>>

(***************************************************************************)
(* Bounds                                                                  *)
(***************************************************************************)
\* the external tools return an exit status in 0..MaxStatus
MaxStatus == 2

(***************************************************************************)
(* Values that are not strings                                             *)
(***************************************************************************)
\* Python None (argparse default of --cmakeoption, os.environ.get miss)
None == <<"None">>
\* a Python name that has not been bound yet
Unbound == <<"unbound">>

(***************************************************************************)
(* String literals                                                         *)
(***************************************************************************)
Empty == <<>>
Slash == <<"/">>
Dash == <<"-">>
Underscore == "_"
DotCmake == <<".", "c", "m", "a", "k", "e">>
sBuild == <<"b", "u", "i", "l", "d">>
sInstall == <<"i", "n", "s", "t", "a", "l", "l">>
sScripts == <<"s", "c", "r", "i", "p", "t", "s">>
sHostConfigs == <<"h", "o", "s", "t", "-", "c", "o", "n", "f", "i", "g", "s">>
sOther == <<"o", "t", "h", "e", "r">>
sGnu == <<"g", "n", "u">>
sIntel == <<"i", "n", "t", "e", "l">>
sFoo == <<"f", "o", "o">>
sRelease == <<"R", "e", "l", "e", "a", "s", "e">>
sDebug == <<"D", "e", "b", "u", "g">>
sRelWithDebInfo == <<"R", "e", "l", "W", "i", "t", "h", "D", "e", "b", "I", "n", "f", "o">>
sMinSizeRel == <<"M", "i", "n", "S", "i", "z", "e", "R", "e", "l">>
sDotDotSlashSrc == <<".", ".", "/", "s", "r", "c">>
sUpUp == <<".", ".", "/", ".", ".">>

(***************************************************************************)
(* Python str methods                                                      *)
(***************************************************************************)
StartsWith(s, pre) ==
    Len(s) >= Len(pre) /\ SubSeq(s, 1, Len(pre)) = pre

EndsWith(s, suf) ==
    Len(s) >= Len(suf) /\ SubSeq(s, Len(s) - Len(suf) + 1, Len(s)) = suf

\* sub in s
Contains(s, sub) ==
    \E i \in 1..(Len(s) - Len(sub) + 1) : SubSeq(s, i, i + Len(sub) - 1) = sub

\* s.split(sep), sep one character: "".split("_") = [""], "_a".split("_") = ["", "a"]
RECURSIVE Split(_, _)
Split(s, sep) ==
    IF \A i \in 1..Len(s) : s[i] # sep
    THEN <<s>>
    ELSE LET i == CHOOSE k \in 1..Len(s) :
                      s[k] = sep /\ \A j \in 1..(k - 1) : s[j] # sep
         IN  <<SubSeq(s, 1, i - 1)>> \o Split(SubSeq(s, i + 1, Len(s)), sep)

\* sep.join(parts)
RECURSIVE StrJoin(_, _)
StrJoin(sep, parts) ==
    IF Len(parts) = 0 THEN Empty
    ELSE IF Len(parts) = 1 THEN parts[1]
    ELSE parts[1] \o sep \o StrJoin(sep, Tail(parts))

\* s.replace(old, new), old non-empty: every non-overlapping occurrence, left to right
RECURSIVE Replace(_, _, _)
Replace(s, old, new) ==
    IF Len(s) < Len(old) THEN s
    ELSE IF SubSeq(s, 1, Len(old)) = old
         THEN new \o Replace(SubSeq(s, Len(old) + 1, Len(s)), old, new)
         ELSE <<s[1]>> \o Replace(Tail(s), old, new)

LowerChar(c) ==
    CASE c = "R" -> "r" [] c = "D" -> "d" [] c = "W" -> "w"
      [] c = "I" -> "i" [] c = "M" -> "m" [] c = "S" -> "s"
      [] OTHER -> c

\* s.lower()
Lower(s) == [i \in 1..Len(s) |-> LowerChar(s[i])]

\* truth value of a str-or-None
Truthy(v) == v # None /\ v # Empty

(***************************************************************************)
(* posixpath                                                               *)
(***************************************************************************)
\* path.rfind('/') + 1
RFindSlash(p) ==
    IF \E i \in 1..Len(p) : p[i] = "/"
    THEN CHOOSE i \in 1..Len(p) : p[i] = "/" /\ \A j \in (i + 1)..Len(p) : p[j] # "/"
    ELSE 0

RECURSIVE RStripSlash(_)
RStripSlash(p) ==
    IF Len(p) > 0 /\ p[Len(p)] = "/" THEN RStripSlash(SubSeq(p, 1, Len(p) - 1)) ELSE p

\* os.path.split(p)[1]  (= os.path.basename(p))
Basename(p) == SubSeq(p, RFindSlash(p) + 1, Len(p))

\* os.path.dirname(p)
Dirname(p) ==
    LET head == SubSeq(p, 1, RFindSlash(p))
    IN  IF head # Empty /\ \E i \in 1..Len(head) : head[i] # "/"
        THEN RStripSlash(head) ELSE head

\* os.path.join(a, b)
PathJoin(a, b) ==
    IF StartsWith(b, Slash) THEN b
    ELSE IF a = Empty \/ EndsWith(a, Slash) THEN a \o b
    ELSE a \o Slash \o b

\* the component loop of posixpath.normpath
RECURSIVE NormComps(_, _, _)
NormComps(comps, new_comps, initial_slashes) ==
    IF Len(comps) = 0 THEN new_comps
    ELSE LET comp == comps[1]
             rest == Tail(comps)
             n == Len(new_comps)
         IN  IF comp = Empty \/ comp = <<".">>
             THEN NormComps(rest, new_comps, initial_slashes)
             ELSE IF comp # <<".", ".">>
                     \/ (initial_slashes = 0 /\ n = 0)
                     \/ (n > 0 /\ new_comps[n] = <<".", ".">>)
             THEN NormComps(rest, Append(new_comps, comp), initial_slashes)
             ELSE IF n > 0
             THEN NormComps(rest, SubSeq(new_comps, 1, n - 1), initial_slashes)
             ELSE NormComps(rest, new_comps, initial_slashes)

\* os.path.normpath(path)
Normpath(path) ==
    IF path = Empty THEN <<".">>
    ELSE LET initial_slashes ==
                 IF ~StartsWith(path, Slash) THEN 0
                 ELSE IF StartsWith(path, Slash \o Slash)
                         /\ ~StartsWith(path, Slash \o Slash \o Slash)
                      THEN 2 ELSE 1
             comps == NormComps(Split(path, "/"), <<>>, initial_slashes)
             joined == StrJoin(Slash, comps)
             out == IF initial_slashes = 2 THEN Slash \o Slash \o joined
                    ELSE IF initial_slashes = 1 THEN Slash \o joined
                    ELSE joined
         IN  IF out = Empty THEN <<".">> ELSE out

\* os.path.abspath(path) with the process working directory wd
Abspath(wd, path) ==
    IF StartsWith(path, Slash) THEN Normpath(path) ELSE Normpath(PathJoin(wd, path))

(***************************************************************************)
(* The filesystem: the set of absolute, normalised paths that exist        *)
(* ("/" always exists)                                                     *)
(***************************************************************************)
\* q is p or lies inside the tree rooted at p
IsUnder(q, p) == q = p \/ StartsWith(q, p \o Slash)

\* p and every directory above it
Ancestors(p) ==
    {SubSeq(p, 1, k) : k \in {j \in 1..Len(p) : j = Len(p) \/ p[j + 1] = "/"}}

\* os.path.exists(p) / os.path.isdir(p)
Exists(f, p) == p \in f

\* filesystem after shutil.rmtree(p)
Rmtree(f, p) == {q \in f : ~IsUnder(q, p)}

\* filesystem after os.makedirs(p) (p must not exist)
Makedirs(f, p) == f \cup Ancestors(p)

\* the entries below directory p
Contents(f, p) == {q \in f : q # p /\ IsUnder(q, p)}

(***************************************************************************)
(* config-build.py: inputs                                                 *)
(***************************************************************************)
sToss3x == <<"t", "o", "s", "s", "_", "3", "_", "x">>
sUnderA == <<"_", "a">>
sHGnuCmake == <<"h", "/", "g", "n", "u", ".", "c", "m", "a", "k", "e">>
sXTxt == <<"x", ".", "t", "x", "t">>
sB == <<"b">>
sBC == <<"b", "/", "c">>
sOpt == <<"X", "=", "1">>
sCMakeCache == <<"C", "M", "a", "k", "e", "C", "a", "c", "h", "e", ".", "t", "x", "t">>
sLib == <<"l", "i", "b">>

\* the directory the script is started in
StartDir == <<"/", "w">>
\* sys.argv[0]
Argv0 == <<"/", "r", "/", "s", "c", "r", "i", "p", "t", "s", "/",
           "c", "o", "n", "f", "i", "g", "-", "b", "u", "i", "l", "d", ".", "p", "y">>

\* choices= of --buildtype
BuildTypes == {sRelease, sDebug, sRelWithDebInfo, sMinSizeRel}
Compilers == {sGnu, sIntel}
HostConfigs == {Empty, sHGnuCmake, sXTxt, DotCmake}
PathArgs == {Empty, sB, sBC}
CMakeOptions == {None, Empty, sOpt}
\* values of SYS_TYPE when it is set
SysTypes == {Empty, sUnderA, sToss3x}
Hostnames == {sFoo}

\* the options read by the sections that resolve the cache file and the directories
Args ==
    [buildpath : PathArgs, installpath : PathArgs, compiler : Compilers,
     buildtype : BuildTypes, hostconfig : HostConfigs]

\* the options read only by the section that builds the command line; the model
\* draws them where that section reads them
LineArgs ==
    [eclipse : BOOLEAN, xcode : BOOLEAN, exportcompilercommands : BOOLEAN,
     cmakeoption : CMakeOptions]

\* os.environ restricted to the variables the scripts read
Environs(name, values) == {<<>>} \cup {[n \in {name} |-> v] : v \in values}

(***************************************************************************)
(* config-build.py: the computations of each section                       *)
(***************************************************************************)
\* scriptsdir = os.path.dirname(os.path.abspath(sys.argv[0]))
scriptsdir == Dirname(Abspath(StartDir, Argv0))

\* FindCacheFile with the SYS_TYPE test ahead of the --hostconfig test
FindCacheFileSysTypeFirst(a, env, node) ==
    LET root == Replace(scriptsdir, sScripts, sHostConfigs)
    IN  IF "SYS_TYPE" \in DOMAIN env
        THEN LET pinfo == Split(env["SYS_TYPE"], Underscore)[1]
             IN  [cachefile |-> PathJoin(PathJoin(root, pinfo), a.compiler \o DotCmake),
                  platform_info |-> pinfo]
        ELSE IF a.hostconfig # Empty
        THEN LET cf == Abspath(StartDir, a.hostconfig)
                 base == Basename(cf)
             IN  [cachefile |-> cf,
                  platform_info |-> IF EndsWith(base, DotCmake)
                                    THEN SubSeq(base, 1, Len(base) - 6)
                                    ELSE base]
        ELSE [cachefile |-> PathJoin(PathJoin(root, sOther), node \o DotCmake),
              platform_info |-> node]

\* "Find CMake Cache File": the pair (cachefile, platform_info)
FindCacheFile(a, env, node) ==
    IF a.hostconfig # Empty
    THEN LET cf == Abspath(StartDir, a.hostconfig)
             base == Basename(cf)
         IN  [cachefile |-> cf,
              platform_info |-> IF EndsWith(base, DotCmake)
                                THEN SubSeq(base, 1, Len(base) - 6)
                                ELSE base]
    ELSE LET root == Replace(scriptsdir, sScripts, sHostConfigs)
         IN  IF "SYS_TYPE" \in DOMAIN env
             THEN LET pinfo == Split(env["SYS_TYPE"], Underscore)[1]
                  IN  [cachefile |-> PathJoin(PathJoin(root, pinfo),
                                              a.compiler \o DotCmake),
                       platform_info |-> pinfo]
             ELSE [cachefile |-> PathJoin(PathJoin(root, sOther), node \o DotCmake),
                   platform_info |-> node]

\* BuildDirName with the build type used as typed (no .lower())
BuildDirNameNoLower(a, pinfo) ==
    IF a.buildpath # Empty THEN a.buildpath
    ELSE IF a.hostconfig # Empty
    THEN StrJoin(Dash, <<sBuild, pinfo, a.buildtype>>)
    ELSE StrJoin(Dash, <<sBuild, pinfo, a.compiler, a.buildtype>>)

\* BuildDirName with the host-config branch joining the compiler as well
BuildDirNameWithCompiler(a, pinfo) ==
    IF a.buildpath # Empty THEN a.buildpath
    ELSE StrJoin(Dash, <<sBuild, pinfo, a.compiler, Lower(a.buildtype)>>)

\* lines 106-114: the name given to os.path.abspath for the build directory
BuildDirName(a, pinfo) ==
    IF a.buildpath # Empty THEN a.buildpath
    ELSE IF a.hostconfig # Empty
    THEN StrJoin(Dash, <<sBuild, pinfo, Lower(a.buildtype)>>)
    ELSE StrJoin(Dash, <<sBuild, pinfo, a.compiler, Lower(a.buildtype)>>)

\* lines 129-136: the name given to os.path.abspath for the install directory
InstallDirName(a, pinfo) ==
    IF a.installpath # Empty THEN Abspath(StartDir, a.installpath)
    ELSE IF a.hostconfig # Empty
    THEN StrJoin(Dash, <<sInstall, pinfo, Lower(a.buildtype)>>)
    ELSE StrJoin(Dash, <<sInstall, pinfo, a.compiler, Lower(a.buildtype)>>)

\* line 116
BuildPathOf(a, pinfo) == Abspath(StartDir, BuildDirName(a, pinfo))

\* line 138
InstallPathOf(a, pinfo) == Abspath(StartDir, InstallDirName(a, pinfo))

\* if os.path.exists(p): shutil.rmtree(p)
ResetDir(f, p) == IF Exists(f, p) THEN Rmtree(f, p) ELSE f

\* filesystem after the build-directory section
BuildDirFs(f, p) == Makedirs(ResetDir(f, p), p)

\* filesystem after the install-directory section
InstallDirFs(f, p) == Makedirs(ResetDir(f, p), p)

\* one shell word (or flag with its argument) appended to cmakeline
Tok(flag, arg) == [flag |-> flag, arg |-> arg]

\* CMakeLine with the passthrough test written "is not None"
CMakeLineOptionNotNone(a, la, cf, ip) ==
    <<Tok("cmake", Empty),
      Tok("-C", cf),
      Tok("-DCMAKE_BUILD_TYPE=", a.buildtype),
      Tok("-DCMAKE_INSTALL_PREFIX=", ip)>>
    \o (IF la.exportcompilercommands
        THEN <<Tok("-DCMAKE_EXPORT_COMPILE_COMMANDS=", <<"o", "n">>)>> ELSE <<>>)
    \o (IF la.eclipse THEN <<Tok("-G", <<"E">>)>> ELSE <<>>)
    \o (IF la.xcode THEN <<Tok("-G", <<"X">>)>> ELSE <<>>)
    \o (IF la.cmakeoption # None THEN <<Tok("-D", la.cmakeoption)>> ELSE <<>>)
    \o <<Tok("", scriptsdir \o Slash \o sDotDotSlashSrc)>>

\* "Build CMake command line"
CMakeLine(a, la, cf, ip) ==
    <<Tok("cmake", Empty),
      Tok("-C", cf),
      Tok("-DCMAKE_BUILD_TYPE=", a.buildtype),
      Tok("-DCMAKE_INSTALL_PREFIX=", ip)>>
    \o (IF la.exportcompilercommands
        THEN <<Tok("-DCMAKE_EXPORT_COMPILE_COMMANDS=", <<"o", "n">>)>> ELSE <<>>)
    \o (IF la.eclipse THEN <<Tok("-G", <<"E">>)>> ELSE <<>>)
    \o (IF la.xcode THEN <<Tok("-G", <<"X">>)>> ELSE <<>>)
    \o (IF Truthy(la.cmakeoption) THEN <<Tok("-D", la.cmakeoption)>> ELSE <<>>)
    \o <<Tok("", scriptsdir \o Slash \o sDotDotSlashSrc)>>

(***************************************************************************)
(* config-build.py: initial state                                          *)
(***************************************************************************)
\* directories that exist on every machine the script runs on
BaseFs == Ancestors(StartDir) \cup Ancestors(Abspath(StartDir, Argv0))

\* a directory left by an earlier run, with something in it
OldTree(p, entry) == Ancestors(PathJoin(p, entry))

InitBuildSrcIdle ==
    /\ opts = <<>>
    /\ src_dir = Unbound
    /\ job_name = Unbound
    /\ res = -1
    /\ calls = <<>>

Init ==
    /\ pc = "find_cache"
    /\ args \in Args
    /\ lineargs = Unbound
    /\ environ \in Environs("SYS_TYPE", SysTypes)
    /\ hostname \in Hostnames
    /\ cwd = StartDir
    /\ \E haveCache, haveBuild, haveInstall \in BOOLEAN :
           LET r == FindCacheFile(args, environ, hostname)
               bp == BuildPathOf(args, r.platform_info)
               ip == InstallPathOf(args, r.platform_info)
           IN  fs = BaseFs
                    \cup (IF haveCache THEN Ancestors(r.cachefile) ELSE {})
                    \cup (IF haveBuild THEN OldTree(bp, sCMakeCache) ELSE {})
                    \cup (IF haveInstall THEN OldTree(ip, sLib) ELSE {})
    /\ fs0 = fs
    /\ platform_info = Empty
    /\ cachefile = Unbound
    /\ buildpath = Unbound
    /\ installpath = Unbound
    /\ cmakeline = Unbound
    /\ cmake_calls = <<>>
    /\ exit_status = -1
    /\ InitBuildSrcIdle

(***************************************************************************)
(* config-build.py: one action per section of the script                   *)
(***************************************************************************)
\* lines 73-93
FindCache ==
    /\ pc = "find_cache"
    /\ LET r == FindCacheFile(args, environ, hostname)
       IN  /\ cachefile' = r.cachefile
           /\ platform_info' = r.platform_info
    /\ pc' = "check_cache"
    /\ UNCHANGED <<args, lineargs, environ, hostname, fs, fs0, cwd, buildpath, installpath, cmakeline,
                   cmake_calls, exit_status, bsVars>>

\* CheckCache with the assertion compiled out
CheckCacheNoAssert ==
    /\ pc = "check_cache"
    /\ pc' = "setup_build"
    /\ UNCHANGED <<cbVars, hostname, exit_status, bsVars>>

\* line 100: assert os.path.exists(cachefile); AssertionError ends the run with status 1
CheckCache ==
    /\ pc = "check_cache"
    /\ IF Exists(fs, cachefile)
       THEN pc' = "setup_build" /\ UNCHANGED exit_status
       ELSE pc' = "failed" /\ exit_status' = 1
    /\ UNCHANGED <<cbVars, hostname, bsVars>>

\* lines 106-123
SetupBuildDir ==
    /\ pc = "setup_build"
    /\ buildpath' = BuildPathOf(args, platform_info)
    /\ fs' = BuildDirFs(fs, buildpath')
    /\ pc' = "setup_install"
    /\ UNCHANGED <<args, lineargs, environ, hostname, fs0, cwd, platform_info, cachefile, installpath,
                   cmakeline, cmake_calls, exit_status, bsVars>>

\* lines 129-146
SetupInstallDir ==
    /\ pc = "setup_install"
    /\ installpath' = InstallPathOf(args, platform_info)
    /\ fs' = InstallDirFs(fs, installpath')
    /\ pc' = "build_cmakeline"
    /\ UNCHANGED <<args, lineargs, environ, hostname, fs0, cwd, platform_info, cachefile, buildpath,
                   cmakeline, cmake_calls, exit_status, bsVars>>

\* lines 152-172
BuildCMakeLine ==
    /\ pc = "build_cmakeline"
    /\ \E la \in LineArgs :
           /\ lineargs' = la
           /\ cmakeline' = CMakeLine(args, la, cachefile, installpath)
    /\ pc' = "chdir"
    /\ UNCHANGED <<args, environ, hostname, fs, fs0, cwd, platform_info, cachefile, buildpath,
                   installpath, cmake_calls, exit_status, bsVars>>

\* line 178: os.chdir(buildpath); OSError ends the run with status 1
Chdir ==
    /\ pc = "chdir"
    /\ IF Exists(fs, buildpath)
       THEN cwd' = buildpath /\ pc' = "run_cmake" /\ UNCHANGED exit_status
       ELSE pc' = "failed" /\ exit_status' = 1 /\ UNCHANGED cwd
    /\ UNCHANGED <<args, lineargs, environ, hostname, fs, fs0, platform_info, cachefile, buildpath,
                   installpath, cmakeline, cmake_calls, bsVars>>

\* what the script does with the value subprocess.call returns: the statement
\* on line 181 is an expression statement, and the script then runs off its end
ScriptStatus(status) == 0

\* line 181: subprocess.call(cmakeline, shell=True); cmake ends with any status
RunCMake ==
    /\ pc = "run_cmake"
    /\ \E status \in 0..MaxStatus :
           /\ cmake_calls' = Append(cmake_calls,
                                    [cwd |-> cwd, line |-> cmakeline, status |-> status])
           /\ exit_status' = ScriptStatus(status)
    /\ pc' = "done"
    /\ UNCHANGED <<args, lineargs, environ, hostname, fs, fs0, cwd, platform_info, cachefile, buildpath,
                   installpath, cmakeline, bsVars>>

Next ==
    \/ FindCache
    \/ CheckCache
    \/ SetupBuildDir
    \/ SetupInstallDir
    \/ BuildCMakeLine
    \/ Chdir
    \/ RunCMake

Spec == Init /\ [][Next]_vars

(***************************************************************************)
(* build_src.py                                                            *)
(***************************************************************************)
sU == <<"/", "u">>
sD == <<"/", "d">>
sN == <<"/", "n">>
sJob == <<"j", "o", "b">>
sUsr == <<"u", "s", "r">>
sStamp == <<"t", "0">>

\* __file__
BuildSrcFile == <<"/", "r", "/", "s", "c", "r", "i", "p", "t", "s", "/",
                  "l", "l", "n", "l", "_", "s", "c", "r", "i", "p", "t", "s", "/",
                  "b", "u", "i", "l", "d", "_", "s", "r", "c", ".", "p", "y">>

\* values of UBERENV_PREFIX when it is set, and of --directory
PrefixDirs == {sU, sN}
DirectoryArgs == {Empty, sD, sN}
ArchiveArgs == {Empty, sJob}
\* directories that may or may not exist (sN never does)
MaybeDirs == {sU, sD}

\* parse_args(): vars(opts)
Opts == [directory : DirectoryArgs, archive : ArchiveArgs]

\* lines 72-73: the script-relative default source directory
DefaultSrcDir == Abspath(StartDir, PathJoin(Dirname(BuildSrcFile), sUpUp))

InitConfigBuildIdle ==
    /\ args = <<>>
    /\ lineargs = Unbound
    /\ hostname = Empty
    /\ cwd = StartDir
    /\ platform_info = Empty
    /\ cachefile = Unbound
    /\ buildpath = Unbound
    /\ installpath = Unbound
    /\ cmakeline = Unbound
    /\ cmake_calls = <<>>

InitBuildSrc ==
    /\ pc = "parse_args"
    /\ environ \in Environs("UBERENV_PREFIX", PrefixDirs)
    /\ fs \in {Ancestors(BuildSrcFile) \cup Ancestors(StartDir) \cup d : d \in SUBSET MaybeDirs}
    /\ fs0 = fs
    /\ exit_status = -1
    /\ InitConfigBuildIdle
    /\ InitBuildSrcIdle

\* line 56: opts = parse_args()
ParseArgs ==
    /\ pc = "parse_args"
    /\ opts' \in Opts
    /\ pc' = "uberenv_prefix"
    /\ UNCHANGED <<cbVars, hostname, exit_status, src_dir, job_name, res, calls>>

\* lines 59-64
UberenvPrefix ==
    /\ pc = "uberenv_prefix"
    /\ IF "UBERENV_PREFIX" \in DOMAIN environ
       THEN /\ src_dir' = environ["UBERENV_PREFIX"]
            /\ IF ~Exists(fs, src_dir')
               THEN pc' = "returned" /\ exit_status' = 1
               ELSE pc' = "directory" /\ UNCHANGED exit_status
       ELSE pc' = "directory" /\ UNCHANGED <<src_dir, exit_status>>
    /\ UNCHANGED <<cbVars, hostname, opts, job_name, res, calls>>

\* lines 65-73
Directory ==
    /\ pc = "directory"
    /\ IF opts.directory # Empty
       THEN /\ src_dir' = opts.directory
            /\ IF ~Exists(fs, src_dir')
               THEN pc' = "returned" /\ exit_status' = 1
               ELSE pc' = "job_name" /\ UNCHANGED exit_status
       ELSE /\ src_dir' = DefaultSrcDir
            /\ pc' = "job_name"
            /\ UNCHANGED exit_status
    /\ UNCHANGED <<cbVars, hostname, opts, job_name, res, calls>>

\* lines 75-78
JobName ==
    /\ pc = "job_name"
    /\ job_name' = IF opts.archive # Empty
                   THEN opts.archive
                   ELSE sUsr \o Slash \o Basename(BuildSrcFile)
    /\ pc' = "build"
    /\ UNCHANGED <<cbVars, hostname, exit_status, opts, src_dir, res, calls>>

\* lines 80-81: res = build_and_test_host_configs(src_dir, job_name, timestamp)
Build ==
    /\ pc = "build"
    /\ \E r \in 0..MaxStatus : res' = r
    /\ calls' = Append(calls, [fn |-> "build_and_test_host_configs",
                               src_dir |-> src_dir, job_name |-> job_name,
                               timestamp |-> sStamp])
    /\ pc' = "archive"
    /\ UNCHANGED <<cbVars, hostname, exit_status, opts, src_dir, job_name>>

\* lines 84-87 and sys.exit(main())
Archive ==
    /\ pc = "archive"
    /\ calls' = IF opts.archive # Empty
                THEN Append(calls, [fn |-> "archive_src_logs",
                                    src_dir |-> src_dir, job_name |-> job_name,
                                    timestamp |-> sStamp])
                ELSE calls
    /\ exit_status' = res
    /\ pc' = "returned"
    /\ UNCHANGED <<cbVars, hostname, opts, src_dir, job_name, res>>

NextBuildSrc ==
    \/ ParseArgs
    \/ UberenvPrefix
    \/ Directory
    \/ JobName
    \/ Build
    \/ Archive

SpecBuildSrc == InitBuildSrc /\ [][NextBuildSrc]_vars

(***************************************************************************)
(* Properties of config-build.py (checked under Spec)                      *)
(***************************************************************************)
\* <configs-root>
ConfigsRoot == Slash \o <<"r">> \o Slash \o sHostConfigs

\* the lower-case spelling of each build type
LowerName(bt) ==
    CASE bt = sRelease -> <<"r", "e", "l", "e", "a", "s", "e">>
      [] bt = sDebug -> <<"d", "e", "b", "u", "g">>
      [] bt = sRelWithDebInfo ->
             <<"r", "e", "l", "w", "i", "t", "h", "d", "e", "b", "i", "n", "f", "o">>
      [] bt = sMinSizeRel -> <<"m", "i", "n", "s", "i", "z", "e", "r", "e", "l">>

\* the number of tokens of the command line that carry the flag
CountFlag(line, flag) == Cardinality({i \in DOMAIN line : line[i].flag = flag})

B2N(b) == IF b THEN 1 ELSE 0

\* C1 (as claimed): when the script has run cmake and ended, its own exit
\* status equals the exit status cmake returned.
C1_ExitStatusPropagated ==
    pc = "done" => exit_status = cmake_calls[Len(cmake_calls)].status

\* C2: if the resolved cache file does not exist, the run ends at the
\* assertion with status 1: the filesystem is as it was at the start (nothing
\* deleted, nothing created), the working directory is unchanged and cmake
\* has not been invoked.
C2_NoSideEffectsWithoutCache ==
    (cachefile # Unbound /\ ~Exists(fs0, cachefile)) =>
        /\ pc \in {"check_cache", "failed"}
        /\ fs = fs0
        /\ cwd = StartDir
        /\ cmake_calls = <<>>
        /\ (pc = "failed" => exit_status = 1)

\* C2 witness: a run that failed on a missing cache file while an old,
\* non-empty build directory is still in place.
C2_Witness ==
    /\ pc = "failed"
    /\ ~Exists(fs0, cachefile)
    /\ Contents(fs, BuildPathOf(args, platform_info)) # {}

\* C3: cache-file resolution is first-match-wins: (1) --hostconfig given:
\* CacheFile is its absolute path and PlatformInfo its base name without a
\* trailing ".cmake", whatever SYS_TYPE is; (2) else SYS_TYPE set:
\* PlatformInfo is the part of SYS_TYPE before its first underscore and
\* CacheFile is the path <configs-root>/<PlatformInfo>/<compiler>.cmake;
\* (3) else PlatformInfo is the hostname and CacheFile is
\* <configs-root>/other/<hostname>.cmake.
C3_CacheFileResolution ==
    pc # "find_cache" =>
        IF args.hostconfig # Empty
        THEN /\ cachefile = Normpath(StartDir \o Slash \o args.hostconfig)
             /\ LET base == Basename(args.hostconfig)
                IN  IF EndsWith(base, DotCmake)
                    THEN platform_info \o DotCmake = base
                    ELSE platform_info = base
        ELSE IF "SYS_TYPE" \in DOMAIN environ
        THEN /\ \A i \in 1..Len(platform_info) : platform_info[i] # "_"
             /\ \/ environ["SYS_TYPE"] = platform_info
                \/ StartsWith(environ["SYS_TYPE"], platform_info \o <<"_">>)
             /\ Normpath(cachefile) =
                    Normpath(ConfigsRoot \o Slash \o platform_info \o Slash
                             \o args.compiler \o DotCmake)
        ELSE /\ platform_info = hostname
             /\ cachefile = ConfigsRoot \o Slash \o sOther \o Slash
                            \o hostname \o DotCmake

\* C3 witness: --hostconfig h/gnu.cmake wins over a SYS_TYPE that is set.
C3_Witness ==
    /\ pc = "check_cache"
    /\ args.hostconfig = sHGnuCmake
    /\ "SYS_TYPE" \in DOMAIN environ
    /\ environ["SYS_TYPE"] = sToss3x
    /\ platform_info = sGnu

\* the directory the naming policy prescribes for a prefix and an override
ExpectedDir(prefix, override) ==
    IF override # Empty
    THEN Normpath(StartDir \o Slash \o override)
    ELSE IF args.hostconfig # Empty
    THEN StartDir \o Slash \o prefix \o Dash \o platform_info \o Dash
         \o LowerName(args.buildtype)
    ELSE StartDir \o Slash \o prefix \o Dash \o platform_info \o Dash
         \o args.compiler \o Dash \o LowerName(args.buildtype)

sBuildFooGnuRelease ==
    <<"b", "u", "i", "l", "d", "-", "f", "o", "o", "-", "g", "n", "u", "-",
      "r", "e", "l", "e", "a", "s", "e">>

\* C4: BuildPath (prefix "build") and InstallPath (prefix "install") are
\* each: the explicit override made absolute; else, with --hostconfig,
\* <prefix>-<PlatformInfo>-<buildtype lowercased>; else
\* <prefix>-<PlatformInfo>-<compiler>-<buildtype lowercased>.  With
\* --buildtype Release --compiler gnu, no overrides, no SYS_TYPE and hostname
\* foo the build directory is build-foo-gnu-release.
C4_DirectoryNaming ==
    /\ buildpath # Unbound => buildpath = ExpectedDir(sBuild, args.buildpath)
    /\ installpath # Unbound => installpath = ExpectedDir(sInstall, args.installpath)
    /\ (/\ buildpath # Unbound
        /\ args.buildtype = sRelease /\ args.compiler = sGnu
        /\ args.buildpath = Empty /\ args.hostconfig = Empty
        /\ environ = <<>> /\ hostname = sFoo)
       => Basename(buildpath) = sBuildFooGnuRelease

\* C4 witness: the run of the example has named both directories.
C4_Witness ==
    /\ installpath # Unbound
    /\ buildpath = StartDir \o Slash \o sBuildFooGnuRelease
    /\ args.installpath = sBC

\* both directories have been named, from --hostconfig and without overrides
ComposedFromHostConfig ==
    /\ installpath # Unbound
    /\ args.hostconfig # Empty
    /\ args.buildpath = Empty
    /\ args.installpath = Empty

\* C5 (as claimed): with --hostconfig the composed build and install
\* directory names do not include the compiler string.
C5_NoCompilerStringInName ==
    ComposedFromHostConfig =>
        /\ ~Contains(Basename(buildpath), args.compiler)
        /\ ~Contains(Basename(installpath), args.compiler)

\* C5 (amended): with --hostconfig the composed build and install directory
\* names have no compiler field: they are the same whatever --compiler is.
C5_NameIndependentOfCompiler ==
    ComposedFromHostConfig =>
        \A c \in Compilers :
            LET a == [args EXCEPT !.compiler = c]
                pinfo == FindCacheFile(a, environ, hostname).platform_info
            IN  /\ BuildPathOf(a, pinfo) = buildpath
                /\ InstallPathOf(a, pinfo) = installpath

\* C5 witness: --hostconfig h/gnu.cmake --compiler intel has named its
\* directories build-gnu-debug and install-gnu-debug.
C5_Witness ==
    /\ ComposedFromHostConfig
    /\ args.hostconfig = sHGnuCmake
    /\ args.compiler = sIntel
    /\ args.buildtype = sDebug
    /\ Basename(buildpath) = sBuild \o Dash \o sGnu \o Dash \o LowerName(sDebug)
    /\ Basename(installpath) = sInstall \o Dash \o sGnu \o Dash \o LowerName(sDebug)

\* C6 (as claimed): when the script changes into BuildPath and invokes cmake,
\* BuildPath exists and is empty, whatever the two paths are.
C6_BuildDirEmptyAtInvoke ==
    pc \in {"chdir", "run_cmake"} =>
        /\ Exists(fs, buildpath)
        /\ Contents(fs, buildpath) = {}

\* C7 (as claimed): the script never creates InstallPath: when cmake is
\* invoked InstallPath does not exist.
C7_InstallDirNotCreated ==
    pc = "run_cmake" => ~Exists(fs, installpath)

C9_PlatformInfoNonEmpty ==
    pc # "find_cache" => platform_info # Empty

(***************************************************************************)
(* Properties of build_src.py (checked under SpecBuildSrc)                 *)
(***************************************************************************)
\* C10 (as claimed): build_and_test_host_configs is called with src_dir equal
\* to --directory when that is given, else to UBERENV_PREFIX when that is
\* set (to a directory), else to the script-relative default.
C10_UberenvPrefixOverrides ==
    \A i \in DOMAIN calls :
        calls[i].fn = "build_and_test_host_configs" =>
            calls[i].src_dir =
                IF opts.directory # Empty THEN opts.directory
                ELSE IF "UBERENV_PREFIX" \in DOMAIN environ
                THEN environ["UBERENV_PREFIX"]
                ELSE DefaultSrcDir

====
